---- MODULE Spec2Model ----
(***************************************************************************)
(* Model of src/app.py, the Streamlit card viewer of akhilsonga/Cat-Research.*)
(*                                                                         *)
(* The script is executed top to bottom once per user interaction; the     *)
(* only state that survives a run is st.session_state.  One action of the   *)
(* model is one complete script run, triggered by one widget event.        *)
(*                                                                         *)
(* Categories are modelled by their alphabetical rank (1 sorts before 2).   *)
(* A CSV file is abstracted to: its readability, its set of columns, the    *)
(* number of rows per category, and whether some Date fails to parse.       *)
(***************************************************************************)
EXTENDS Integers, Sequences, FiniteSets, TLC

VARIABLES csv,            \* the file behind csv_path as load_data would read it
          session_state,  \* st.session_state: a function on the keys that are set
          ui,             \* what the last script run emitted to the page
          drawn,          \* controls some run of this session has drawn
          last_action,    \* the widget event of the last run
          filtered_df,    \* sort model: Date column of a category's rows, source order
          quicksort_perm, \* sort model: the permutation this build's argsort returns
          sorted_df,      \* sort model: source row numbers after sort_values
          item,           \* card model: one row of current_page_data
          card_html       \* card model: the fields rendered for that row

vars == <<csv, session_state, ui, drawn, last_action,
          filtered_df, quicksort_perm, sorted_df, item, card_html>>

navVars  == <<csv, session_state, ui, drawn, last_action>>
sortVars == <<filtered_df, quicksort_perm, sorted_df>>
cardVars == <<item, card_html>>

----------------------------------------------------------------------------
(* Bounds *)

NumCategories == 2        \* distinct Category values a file may contain
MaxFileRows == 45            \* rows of a file, fixed-catalog specification
MaxFileRowsReload == 21      \* rows of a file, specification with file changes
MaxMissing == 1           \* required columns a file may lack
MaxSortRows == 4              \* rows of the table given to sort_values
MaxDate == 2              \* distinct parsed dates (1 is older than 2)
NumUrls == 3              \* distinct link values

(* Program constants *)

cards_per_page == 20

required_columns ==
    {"Title", "Authors", "Link", "Description", "PDF Link", "HTML Link",
     "Category", "Date"}

AllCategories == 1..NumCategories

NoCategory == 0           \* "no category" in a ui field
NotComputed == -1         \* a ui number the run never got to compute
NaT == 0                  \* pandas' missing date in the sort model

----------------------------------------------------------------------------
(* Files *)

NoRows == [c \in AllCategories |-> 0]

\* files load_data cannot read, and readable files that lack required columns
BrokenFiles ==
    [status : {"missing", "unreadable"}, columns : {required_columns},
     counts : {NoRows}, bad_dates : {FALSE}]
    \cup
    [status : {"ok"},
     columns : {required_columns \ m : m \in
                   {s \in SUBSET required_columns : 1 <= Cardinality(s)
                                                  /\ Cardinality(s) <= MaxMissing}},
     counts : {NoRows}, bad_dates : {FALSE}]

RECURSIVE sum_over(_, _)
sum_over(counts, S) ==
    IF S = {} THEN 0
    ELSE LET c == CHOOSE x \in S : TRUE IN counts[c] + sum_over(counts, S \ {c})

\* len(df)
total_rows(counts) == sum_over(counts, AllCategories)

\* readable files that have every required column, of at most maxRows rows
CompleteFiles(maxRows) ==
    {f \in [status : {"ok"}, columns : {required_columns},
            counts : [AllCategories -> 0..maxRows], bad_dates : BOOLEAN] :
        total_rows(f.counts) <= maxRows}

Files(maxRows) == BrokenFiles \cup CompleteFiles(maxRows)

----------------------------------------------------------------------------
(* The script, section by section *)

BlankUI ==
    [error |-> "none", missing_columns |-> {}, date_warning |-> FALSE,
     exception |-> "none", categories |-> <<>>, notice |-> NoCategory,
     selected_category |-> NoCategory, header_page |-> NotComputed,
     total_cards |-> NotComputed, total_pages |-> NotComputed,
     current_page_data |-> {}, previous |-> FALSE, next |-> FALSE,
     status_page |-> NotComputed]

\* mutant: an unreadable file is taken for an empty table
load_data_swallow(file) ==
    IF file.status = "missing" THEN [ok |-> FALSE, error |-> "file_not_found"]
    ELSE [ok |-> TRUE, error |-> "none"]

\* load_data: the DataFrame, or the st.error message followed by st.stop()
load_data(file) ==
    IF file.status = "missing" THEN [ok |-> FALSE, error |-> "file_not_found"]
    ELSE IF file.status = "unreadable" THEN [ok |-> FALSE, error |-> "load_error"]
    ELSE [ok |-> TRUE, error |-> "none"]

missing_columns(df) == required_columns \ df.columns

\* sorted(...): ascending sequence of a finite set of integers
RECURSIVE sorted(_)
sorted(S) ==
    IF S = {} THEN <<>>
    ELSE LET m == CHOOSE x \in S : \A y \in S : x <= y
         IN <<m>> \o sorted(S \ {m})

\* df['Category'].unique()
unique_categories(df) == {c \in AllCategories : df.counts[c] > 0}

categories(df) == sorted(unique_categories(df))

Range(s) == {s[i] : i \in 1..Len(s)}

\* mutant: the default category is the last one
init_session_last(ss, cats) ==
    LET s1 == IF "selected_category" \notin DOMAIN ss
              THEN ("selected_category" :> cats[Len(cats)]) @@ ss ELSE ss
    IN IF "current_page" \notin DOMAIN s1
       THEN ("current_page" :> 0) @@ s1 ELSE s1

\* lines 152-158: defaults for keys not yet in st.session_state
init_session(ss, cats) ==
    LET s1 == IF "selected_category" \notin DOMAIN ss
              THEN ("selected_category" :> cats[1]) @@ ss ELSE ss
    IN IF "current_page" \notin DOMAIN s1
       THEN ("current_page" :> 0) @@ s1 ELSE s1

\* mutant: a category click keeps the page
sidebar_buttons_keep_page(ss, cats, click) ==
    IF click[1] = "category" /\ click[2] \in Range(cats)
    THEN [ss EXCEPT !["selected_category"] = click[2]]
    ELSE ss

\* lines 162-166: the button of the clicked category returns True if it is drawn
sidebar_buttons(ss, cats, click) ==
    IF click[1] = "category" /\ click[2] \in Range(cats)
    THEN [ss EXCEPT !["selected_category"] = click[2], !["current_page"] = 0]
    ELSE ss

\* len(df[df['Category'] == selected_category])
filtered_count(df, selected_category) ==
    IF selected_category \in AllCategories THEN df.counts[selected_category] ELSE 0

\* mutant: the empty check never fires
empty_never(total_cards) == FALSE

\* filtered_df.empty
empty(total_cards) == total_cards = 0

\* mutant: a full last page is counted as one page more
total_pages_floor(total_cards) == total_cards \div cards_per_page + 1

total_pages(total_cards) == (total_cards - 1) \div cards_per_page + 1

\* offsets (0-based) into the sorted filtered_df of the rows of df.iloc[start:end]
get_page_data(total_cards, page, per_page) ==
    LET start_idx == page * per_page
        end_idx == start_idx + per_page
    IN {i \in 0..(total_cards - 1) : start_idx <= i /\ i < end_idx}

previous_shown(page) == page > 0

next_shown(page, pages) == page < pages - 1

\* lines 256-259
previous_control(ss, click) ==
    IF previous_shown(ss["current_page"]) /\ click[1] = "previous"
    THEN [ss EXCEPT !["current_page"] = @ - 1] ELSE ss

\* mutant: the Next click is applied without the last-page guard
next_control_unguarded(ss, pages, click) ==
    IF click[1] = "next"
    THEN [ss EXCEPT !["current_page"] = @ + 1] ELSE ss

\* lines 265-268
next_control(ss, pages, click) ==
    IF next_shown(ss["current_page"], pages) /\ click[1] = "next"
    THEN [ss EXCEPT !["current_page"] = @ + 1] ELSE ss

\* lines 160-272, once the session keys exist
render(df, ss0, cats, warn, click) ==
    LET ss1 == sidebar_buttons(ss0, cats, click)
        selected_category == ss1["selected_category"]
        total_cards == filtered_count(df, selected_category)
        base == [BlankUI EXCEPT !.date_warning = warn, !.categories = cats,
                                !.selected_category = selected_category]
    IN IF empty(total_cards)
       THEN [ss |-> ss1, ui |-> [base EXCEPT !.notice = selected_category]]
       ELSE LET pages == total_pages(total_cards)
                page == ss1["current_page"]
                ss2 == previous_control(ss1, click)
                ss3 == next_control(ss2, pages, click)
            IN [ss |-> ss3,
                ui |-> [base EXCEPT
                          !.total_cards = total_cards,
                          !.total_pages = pages,
                          !.header_page = page + 1,
                          !.current_page_data =
                              get_page_data(total_cards, page, cards_per_page),
                          !.previous = previous_shown(page),
                          !.next = next_shown(ss2["current_page"], pages),
                          !.status_page = ss3["current_page"] + 1]]

\* one run of the whole script
script(file, ss, click) ==
    LET loaded == load_data(file) IN
    IF ~loaded.ok
    THEN [ss |-> ss, ui |-> [BlankUI EXCEPT !.error = loaded.error]]
    ELSE IF missing_columns(file) # {}
    THEN [ss |-> ss, ui |-> [BlankUI EXCEPT !.error = "missing_columns",
                                       !.missing_columns = missing_columns(file)]]
    ELSE LET cats == categories(file) IN
         IF "selected_category" \notin DOMAIN ss /\ cats = <<>>
         THEN [ss |-> ss, ui |-> [BlankUI EXCEPT !.date_warning = file.bad_dates,
                                               !.exception = "IndexError"]]
         ELSE render(file, init_session(ss, cats), cats, file.bad_dates, click)

controls(u) ==
    {<<"category", u.categories[i]>> : i \in 1..Len(u.categories)}
    \cup (IF u.previous THEN {<<"previous", 0>>} ELSE {})
    \cup (IF u.next THEN {<<"next", 0>>} ELSE {})

----------------------------------------------------------------------------
(* Actions of the viewer: one script run per widget event *)

RunOn(file, click) ==
    LET r == script(file, session_state, click) IN
    /\ csv' = file
    /\ session_state' = r.ss
    /\ ui' = r.ui
    /\ drawn' = drawn \cup controls(r.ui)
    /\ last_action' = click
    /\ UNCHANGED <<sortVars, cardVars>>

\* a run without a widget event: the first run of a session, or a plain rerun
Rerun == RunOn(csv, <<"rerun", 0>>)

ClickCategory ==
    \E c \in AllCategories :
        <<"category", c>> \in drawn /\ RunOn(csv, <<"category", c>>)

ClickPrevious == <<"previous", 0>> \in drawn /\ RunOn(csv, <<"previous", 0>>)

ClickNext == <<"next", 0>> \in drawn /\ RunOn(csv, <<"next", 0>>)

\* readable files that lack exactly one required column
OneColumnLost ==
    {[status |-> "ok", columns |-> required_columns \ {k}, counts |-> NoRows,
      bad_dates |-> FALSE] : k \in required_columns}

Unreadable ==
    [status : {"missing", "unreadable"}, columns : {required_columns},
     counts : {NoRows}, bad_dates : {FALSE}]

\* one change of a readable, complete file: it is deleted or damaged, loses a
\* column, has a Date edited, or has one row of a category added or removed
\* or all rows of a category removed
Edits(f, maxRows) ==
    LET rows == {[f EXCEPT !.counts[c] = IF d = 0 THEN 0 ELSE f.counts[c] + d] :
                    c \in AllCategories, d \in {-1, 0, 1}}
    IN Unreadable
       \cup OneColumnLost
       \cup {[f EXCEPT !.bad_dates = ~f.bad_dates]}
       \cup ((rows \cap CompleteFiles(maxRows)) \ {f})

\* the file changes, the cache of load_data is cleared, and the app is rerun
\* with the session state it finds
Reload ==
    /\ csv.status = "ok" /\ csv.columns = required_columns
    /\ \E f \in Edits(csv, MaxFileRowsReload) : RunOn(f, <<"rerun", 0>>)

EmptySession == [k \in {} |-> 0]

SortIdle == filtered_df = <<>> /\ quicksort_perm = <<>> /\ sorted_df = <<>>
CardIdle == item = <<>> /\ card_html = <<>>

InitNav(maxRows) ==
    /\ csv \in Files(maxRows)
    /\ session_state = EmptySession
    /\ ui = BlankUI
    /\ drawn = {}
    /\ last_action = <<"start", 0>>

Init == InitNav(MaxFileRows) /\ SortIdle /\ CardIdle

Next == Rerun \/ ClickCategory \/ ClickPrevious \/ ClickNext

Spec == Init /\ [][Next]_vars

InitReload == InitNav(MaxFileRowsReload) /\ SortIdle /\ CardIdle

NextReload == Rerun \/ ClickCategory \/ ClickPrevious \/ ClickNext \/ Reload

SpecReload == InitReload /\ [][NextReload]_vars

----------------------------------------------------------------------------
(* Sorting one category's rows: line 180 *)

Dates == {NaT} \cup 1..MaxDate

Tables == UNION {[1..n -> Dates] : n \in 1..MaxSortRows}

Perms(n) == {p \in [1..n -> 1..n] : \A i, j \in 1..n : p[i] = p[j] => i = j}

\* sort_values(by='Date', ascending=False): kind defaults to 'quicksort', which
\* fixes no order among equal keys; na_position defaults to 'last', and the
\* NaT rows are appended in source order
sort_values(dates) ==
    {p \in Perms(Len(dates)) :
        \A i, j \in 1..Len(dates) :
            i < j =>
              LET a == dates[p[i]]
                  b == dates[p[j]]
              IN /\ (a = NaT => b = NaT)
                 /\ (a # NaT /\ b # NaT => a >= b)
                 /\ (a = NaT /\ b = NaT => p[i] < p[j])}

InitSort ==
    /\ filtered_df \in Tables
    /\ quicksort_perm \in sort_values(filtered_df)
    /\ sorted_df = <<>>
    /\ InitNav(0) /\ csv = [status |-> "missing", columns |-> required_columns,
                            counts |-> NoRows, bad_dates |-> FALSE]
    /\ CardIdle

\* one recomputation of line 180 on this build
SortRows ==
    /\ sorted_df' = quicksort_perm
    /\ UNCHANGED <<filtered_df, quicksort_perm, navVars, cardVars>>

NextSort == SortRows

SpecSort == InitSort /\ [][NextSort]_vars

----------------------------------------------------------------------------
(* Rendering one card: lines 217-246 *)

NaN == <<"nan", 0>>               \* pandas' missing-value marker (float nan)
Placeholder == <<"text", 0>>      \* the text '#'
NanText == <<"text", 1>>          \* the text 'nan'
NotAvailable == <<"text", 2>>     \* the text 'N/A'
Urls == {<<"url", u>> : u \in 1..NumUrls}
DateValues == {<<"date", d>> : d \in Dates}

link_columns == {"Link", "PDF Link", "HTML Link"}

Items ==
    {it \in [link_columns \cup {"Date"} -> Urls \cup {NaN} \cup DateValues] :
        /\ \A k \in link_columns : it[k] \in Urls \cup {NaN}
        /\ it["Date"] \in DateValues}

\* Series.get(key, default): the default is returned only for a label that is
\* not in the index
get(it, key, default) == IF key \in DOMAIN it THEN it[key] ELSE default

\* f-string formatting of a cell
format(v) == IF v = NaN THEN NanText ELSE v

\* line 225
date_str(d) == IF d = <<"date", NaT>> THEN NotAvailable ELSE d

render_card(it) ==
    [k \in link_columns \cup {"Date"} |->
        IF k = "Date" THEN date_str(it["Date"])
        ELSE format(get(it, k, Placeholder))]

InitCard ==
    /\ item \in Items
    /\ card_html = <<>>
    /\ InitNav(0) /\ csv = [status |-> "ok", columns |-> required_columns,
                            counts |-> NoRows, bad_dates |-> FALSE]
    /\ SortIdle

RenderCard ==
    /\ card_html' = render_card(item)
    /\ UNCHANGED <<item, navVars, sortVars>>

NextCard == RenderCard

SpecCard == InitCard /\ [][NextCard]_vars

----------------------------------------------------------------------------
(* Properties *)

Max(a, b) == IF a >= b THEN a ELSE b
CeilDiv(a, b) == (a + b - 1) \div b

\* the page count the specification prescribes for n records
PagesFor(n) == Max(1, CeilDiv(n, cards_per_page))

\* the offsets of page p of n records
PageSlice(n, p) ==
    {i \in 0..(n - 1) : p * cards_per_page <= i /\ i < p * cards_per_page + cards_per_page}

HasSession == DOMAIN session_state = {"selected_category", "current_page"}
Sel == session_state["selected_category"]
Page == session_state["current_page"]
SelCount == filtered_count(csv, Sel)

Fatal(f) == f.status # "ok" \/ f.columns # required_columns
NonEmptyCatalog(f) == ~Fatal(f) /\ \E c \in AllCategories : f.counts[c] > 0
FirstCategory(f) ==
    CHOOSE c \in AllCategories :
        f.counts[c] > 0 /\ \A d \in AllCategories : f.counts[d] > 0 => c <= d

\* C1: for a fixed catalog, after any sequence of category, Previous and Next
\* clicks (clicks on controls drawn by an earlier run included), current_page
\* lies in 0 .. total_pages-1 of the selected category's result set.
C1_PageInRange ==
    HasSession => 0 <= Page /\ Page <= PagesFor(SelCount) - 1

\* a Next click that arrived on the last page of a three-page category
C1_Witness ==
    /\ HasSession /\ last_action = <<"next", 0>>
    /\ ~ui.next /\ ui.total_pages = 3 /\ Page = 2

\* C2: a category click sets selected_category to that category and
\* current_page to 0, whatever they were, and the cards of that run are page 0
\* of the clicked category.
C2_CategoryClick ==
    [][last_action'[1] = "category" =>
         LET c == last_action'[2] IN
         /\ session_state'["selected_category"] = c
         /\ session_state'["current_page"] = 0
         /\ ui'.selected_category = c
         /\ ui'.header_page = 1
         /\ ui'.current_page_data = PageSlice(csv.counts[c], 0)
         /\ ui'.current_page_data # {}]_vars

\* a click on the category already selected, in a session that has been on a
\* later page
C2_Witness ==
    /\ HasSession /\ last_action = <<"category", Sel>>
    /\ <<"previous", 0>> \in drawn /\ ui.total_pages >= 2
    /\ Page = 0 /\ ui.header_page = 1

\* a Previous or Next click that reaches a control the run draws
Delivered(kind) ==
    /\ last_action'[1] = kind
    /\ HasSession
    /\ IF kind = "next" THEN Page < PagesFor(SelCount) - 1 ELSE Page > 0

\* C3: a Previous (Next) click changes current_page by -1 (+1) and the run it
\* triggers draws the cards of the new current_page.
C3_CardsFollowClick ==
    [][/\ Delivered("next") =>
            /\ session_state'["current_page"] = Page + 1
            /\ ui'.current_page_data = PageSlice(SelCount, Page + 1)
       /\ Delivered("previous") =>
            /\ session_state'["current_page"] = Page - 1
            /\ ui'.current_page_data = PageSlice(SelCount, Page - 1)]_vars

\* C4: in the page a run leaves, Previous is present only if current_page > 0
\* and Next only if current_page < total_pages-1, current_page being the
\* session value at the end of the run.
C4_ControlsMatchPage ==
    (HasSession /\ ui.status_page # NotComputed) =>
        /\ ui.previous => Page > 0
        /\ ui.next => Page < PagesFor(SelCount) - 1

\* a run got as far as the filter of line 172
Filtered == ui.selected_category # NoCategory
ShownCount == filtered_count(csv, ui.selected_category)

\* C5 as stated: for every record count n >= 0 of the selected category,
\* total_pages is max(1, ceil(n / 20)).
C5_TotalPagesFromZero ==
    Filtered => ui.total_pages = PagesFor(ShownCount)

\* C5: for every record count n >= 1 of the selected category, total_pages is
\* ceil(n / 20), at least 1; for n = 0 the run stops before total_pages is
\* computed.
C5_TotalPages ==
    Filtered =>
        IF ShownCount >= 1
        THEN ui.total_pages = CeilDiv(ShownCount, cards_per_page) /\ ui.total_pages >= 1
        ELSE ui.total_pages = NotComputed

\* a category of exactly one full page, and one of one record more
C5_Witness ==
    /\ Filtered /\ ShownCount = cards_per_page /\ ui.total_pages = 1
    /\ \E c \in AllCategories : csv.counts[c] = 1

\* C6 as stated: when the selected category has no rows the notice is shown,
\* no cards are drawn, and the category controls and the navigation (status
\* line) are still produced.
C6_EmptyKeepsNavigation ==
    (Filtered /\ ShownCount = 0) =>
        /\ ui.notice = ui.selected_category
        /\ ui.current_page_data = {}
        /\ ui.categories = categories(csv)
        /\ ui.status_page # NotComputed

\* C6: when the selected category has no rows the notice is shown, no cards
\* are drawn, the category controls are produced, and the run stops there: no
\* page header, no Previous or Next control, no status line.  The notice is
\* shown in no other case.
C6_EmptyHalts ==
    /\ (Filtered /\ ShownCount = 0) =>
          /\ ui.notice = ui.selected_category
          /\ ui.current_page_data = {}
          /\ ui.categories = categories(csv)
          /\ ui.header_page = NotComputed
          /\ ~ui.previous /\ ~ui.next
          /\ ui.status_page = NotComputed
    /\ ui.notice # NoCategory => (Filtered /\ ShownCount = 0)

\* the selected category lost its rows while another category is still listed
C6_Witness ==
    /\ ui.notice # NoCategory /\ ui.notice = Sel
    /\ Len(ui.categories) >= 1 /\ ui.status_page = NotComputed

\* C9: a missing or unreadable file, or a missing required column, yields an
\* error message and nothing else, and leaves the session state as it was; a
\* file whose only defect is an unparseable Date yields the warning and no
\* error.
C9_FatalHalts ==
    [][/\ Fatal(csv') =>
            /\ ui'.error # "none"
            /\ session_state' = session_state
            /\ ui'.categories = <<>>
            /\ ui'.current_page_data = {}
            /\ ~ui'.previous /\ ~ui'.next
            /\ ui'.status_page = NotComputed /\ ui'.notice = NoCategory
       /\ ~Fatal(csv') =>
            /\ ui'.error = "none"
            /\ ui'.date_warning = csv'.bad_dates
            /\ NonEmptyCatalog(csv') => ui'.categories = categories(csv')]_vars

\* a session on its second page whose file lost a column
C9_Witness ==
    /\ ui.error = "missing_columns" /\ ui.missing_columns # {}
    /\ HasSession /\ Page = 1 /\ ui.categories = <<>>

\* C10: for a non-empty catalog the session starts on the alphabetically first
\* category and page 0; selected_category is always a category of the catalog,
\* so the empty-result notice never appears; Previous and Next clicks leave
\* selected_category unchanged.
C10_SelectedCategory ==
    [][NonEmptyCatalog(csv') =>
         /\ session_state = EmptySession =>
                /\ session_state'["selected_category"] = FirstCategory(csv')
                /\ session_state'["current_page"] = 0
         /\ csv'.counts[session_state'["selected_category"]] > 0
         /\ ui'.notice = NoCategory
         /\ last_action'[1] \in {"previous", "next"} =>
                session_state'["selected_category"] = Sel]_vars

\* a Next click in the second category
C10_Witness ==
    /\ HasSession /\ last_action = <<"next", 0>>
    /\ Sel = 2 /\ csv.counts[1] > 0 /\ Page = 1 /\ ui.notice = NoCategory

\* C7: the displayed order is Date descending among known dates, unknown dates
\* after all known ones, and rows of equal date (or both unknown) in their
\* source order.
C7_StableDateOrder ==
    sorted_df # <<>> =>
        \A i, j \in 1..Len(sorted_df) :
            i < j =>
              LET a == filtered_df[sorted_df[i]]
                  b == filtered_df[sorted_df[j]]
              IN /\ (a = NaT => b = NaT)
                 /\ (a # NaT /\ b # NaT => a >= b)
                 /\ (a = b => sorted_df[i] < sorted_df[j])

\* C8: a link field that is absent in the record renders as the placeholder
\* '#', a present one as its value, and never as a missing-value marker.
C8_LinkTargets ==
    card_html # <<>> =>
        \A k \in link_columns :
            /\ item[k] = NaN => card_html[k] = Placeholder
            /\ item[k] # NaN => card_html[k] = item[k]
            /\ card_html[k] \notin {NaN, NanText}

====
